---------------------------- MODULE Spec2Model ----------------------------
(***************************************************************************)
(* Model of crates/actions-core/src/lib.rs, the Rust port of @actions/core. *)
(*                                                                         *)
(* A string is a sequence of one-character strings.  An Option<T> is a     *)
(* sequence of length 0 (None) or 1 (Some(x)).  A process environment is a *)
(* function from the names of the variables that are set to their values;  *)
(* a value holding BadByte is not valid Unicode, so std::env::var fails on *)
(* it as it does on an unset variable.                                     *)
(***************************************************************************)
EXTENDS Integers, Sequences, FiniteSets, TLC

VARIABLES env, fs, call

vars == <<env, fs, call>>

-----------------------------------------------------------------------------
(* Bounds of the model.                                                    *)

\* Length of the input values enumerated for the multiline checks.
MaxInputLen == 4
\* Capacity of a command file in characters; an append past it fails (ENOSPC).
DiskCap == 24
\* PATH stops growing in the model once it is longer than this.
MaxPathLen == 1
\* Length of the enumerated texts over the characters the escaper rewrites.
MaxTextLen == 2

Procs == {1, 2}

-----------------------------------------------------------------------------
(* Strings.                                                                *)

None == <<>>
Some(x) == <<x>>
IsSome(o) == Len(o) = 1
Unwrap(o) == o[1]

BadByte == "\\xFF"
NL == "\n"
CR == "\r"
SP == " "

\* The characters str::trim removes (White_Space).
Whitespace == {SP, NL, CR, "\t"}

Min(S) == CHOOSE x \in S : \A y \in S : x <= y
Max(S) == CHOOSE x \in S : \A y \in S : x >= y

\* All strings over alphabet A of length at most n.
StrUpTo(A, n) == UNION {[1..k -> A] : k \in 0..n}

\* str::contains
IsSubstr(pat, s) ==
  \E i \in 0..(Len(s) - Len(pat)) : SubSeq(s, i + 1, i + Len(pat)) = pat

StartsWith(s, pat) == Len(pat) <= Len(s) /\ SubSeq(s, 1, Len(pat)) = pat

\* Index of the first occurrence of pat in s, 0 when there is none.
Find(pat, s) ==
  LET hits == {i \in 1..(Len(s) - Len(pat) + 1) : SubSeq(s, i, i + Len(pat) - 1) = pat}
  IN IF hits = {} THEN 0 ELSE Min(hits)

Drop(s, n) == SubSeq(s, n + 1, Len(s))

\* str::replace for a non-empty pattern: left to right, non-overlapping.
RECURSIVE Replace(_, _, _)
Replace(s, pat, rep) ==
  IF Len(s) < Len(pat) THEN s
  ELSE IF StartsWith(s, pat) THEN rep \o Replace(Drop(s, Len(pat)), pat, rep)
  ELSE <<Head(s)>> \o Replace(Tail(s), pat, rep)

\* str::trim
Trim(s) ==
  LET keep == {i \in 1..Len(s) : s[i] \notin Whitespace}
  IN IF keep = {} THEN <<>> ELSE SubSeq(s, Min(keep), Max(keep))

\* str::split("\n"): always at least one piece; a trailing newline ends with
\* an empty piece.
RECURSIVE SplitLines(_)
SplitLines(s) ==
  LET i == Find(<<NL>>, s)
  IN IF i = 0 THEN <<s>> ELSE <<SubSeq(s, 1, i - 1)>> \o SplitLines(Drop(s, i))

\* char::to_uppercase on the letters the model uses.
UpperChar(c) ==
  CASE c = "a" -> "A"
    [] c = "b" -> "B"
    [] OTHER -> c

ToUppercase(s) == [i \in 1..Len(s) |-> UpperChar(s[i])]

-----------------------------------------------------------------------------
(* The process environment (std::env).                                     *)

Ok(v) == [ok |-> TRUE, val |-> v, err |-> "none"]
Err(kind) == [ok |-> FALSE, val |-> <<>>, err |-> kind]

IsUnicode(s) == \A i \in 1..Len(s) : s[i] # BadByte

\* std::env::var on environment e.
env_var(e, key) ==
  IF key \notin DOMAIN e THEN Err("NotPresent")
  ELSE IF ~IsUnicode(e[key]) THEN Err("NotUnicode")
  ELSE Ok(e[key])

\* Result::unwrap_or_default on a Result<String, _>.
unwrap_or_default(r) == IF r.ok THEN r.val ELSE <<>>

\* std::env::set_var on environment e.
set_var(e, key, v) == [k \in (DOMAIN e) \cup {key} |-> IF k = key THEN v ELSE e[k]]

remove_var(e, key) == [k \in (DOMAIN e) \ {key} |-> e[k]]

EmptyEnv == [k \in {} |-> <<>>]

-----------------------------------------------------------------------------
(* The record of a process's current or latest call of a public operation: *)
(* its arguments (name, value, opts), the environment it started from      *)
(* (pre), the channel it chose (branch), the delimiter it generated, the   *)
(* file it appends to (target), the appends still to make (pend) and made  *)
(* (wrote), the lines it wrote to stdout (out), whether a call of          *)
(* issue_command, issue_file_command or prepare_key_value_message inside   *)
(* it returned an error (failed), and what it returned (ret, err, result). *)

NoCall ==
  [op |-> "none", name |-> <<>>, value |-> None, opts |-> None,
   pre |-> EmptyEnv, branch |-> "none", delim |-> <<>>,
   target |-> <<>>, pend |-> <<>>, wrote |-> <<>>, out |-> <<>>,
   ret |-> "Ok", err |-> "none", failed |-> FALSE, result |-> <<>>]

Begin(p, op, name, value, opts) ==
  [NoCall EXCEPT !.op = op, !.name = name, !.value = value, !.opts = opts,
                 !.pre = env[p]]

Idle(p) == call[p].ret # "Running"

-----------------------------------------------------------------------------
(* The collaborators in utils.rs, command.rs and file_command.rs.          *)

\* utils::to_command_value: None is the empty string, Some(s) is s.
to_command_value(value) == IF IsSome(value) THEN Unwrap(value) ELSE <<>>

PCT == "%"

\* command::escape_data: % first, then CR, then LF.
escape_data(s) ==
  Replace(Replace(Replace(s, <<PCT>>, <<PCT, "2", "5">>),
                  <<CR>>, <<PCT, "0", "D">>),
          <<NL>>, <<PCT, "0", "A">>)

\* command::escape_property: escape_data, then colon and comma.
escape_property(s) ==
  Replace(Replace(escape_data(s), <<":">>, <<PCT, "3", "A">>),
          <<",">>, <<PCT, "2", "C">>)

\* One property, key=escaped value.
render_property(kv) == kv[1] \o <<"=">> \o escape_property(kv[2])

\* The properties joined by commas, in insertion order.
RECURSIVE render_properties(_)
render_properties(props) ==
  IF props = <<>> THEN <<>>
  ELSE IF Len(props) = 1 THEN render_property(props[1])
  ELSE render_property(props[1]) \o <<",">> \o render_properties(Tail(props))

MISSING_COMMAND == <<"m", "i", "s", "s", "i", "n", "g", ".", "c", "o", "m", "m", "a", "n", "d">>

\* command::Command's formatter: ::name key=value,key=value::message
format_command(command, props, message) ==
  <<":", ":">>
    \o (IF command = <<>> THEN MISSING_COMMAND ELSE command)
    \o (IF props = <<>> THEN <<>> ELSE <<SP>> \o render_properties(props))
    \o <<":", ":">>
    \o escape_data(message)

\* command::issue_command in call c: one line on stdout, or an I/O error when
\* stdout cannot be written.
issue_command(c, stdout_ok, command, props, message) ==
  IF stdout_ok
  THEN [c EXCEPT !.out = Append(@, format_command(command, props, message))]
  ELSE [c EXCEPT !.failed = TRUE, !.err = "Io"]

\* command::issue: a command without properties.
issue(c, stdout_ok, name, message) == issue_command(c, stdout_ok, name, <<>>, message)

\* file_command::prepare_key_value_message with the delimiter it generated:
\* an error when the delimiter occurs in the key or in the value.
prepare_key_value_message(key, value, delimiter) ==
  LET converted_value == to_command_value(value)
  IN IF IsSubstr(delimiter, key) THEN Err("DelimiterCollision")
     ELSE IF IsSubstr(delimiter, converted_value) THEN Err("DelimiterCollision")
     ELSE Ok(key \o <<"<", "<">> \o delimiter \o <<NL>> \o converted_value
               \o <<NL>> \o delimiter)

GITHUB_ == <<"G", "I", "T", "H", "U", "B", "_">>

\* file_command::issue_file_command in call c under environment e: resolves
\* GITHUB_<command>, fails when it is unset or empty, and otherwise has the
\* message and a newline appended to that file in one write.
issue_file_command(c, e, command, message) ==
  LET r == env_var(e, GITHUB_ \o command)
  IN IF ~r.ok \/ r.val = <<>>
     THEN [c EXCEPT !.failed = TRUE, !.err = "MissingTarget"]
     ELSE [c EXCEPT !.target = r.val, !.pend = Append(@, message \o <<NL>>)]

\* The `?` after a call that may have failed: the operation returns the error.
Failed(c) == c.failed

ReturnErr(c) == [c EXCEPT !.ret = "Err", !.pend = <<>>]
ReturnOk(c) == [c EXCEPT !.ret = IF c.pend = <<>> THEN "Ok" ELSE "Running"]

\* `x?; Ok(())`
Try(c) == IF Failed(c) THEN ReturnErr(c) ELSE ReturnOk(c)

-----------------------------------------------------------------------------
(* The emitting operations of lib.rs.  Each is an operator from the call's *)
(* fresh record and the caller's environment to the record (and, where the *)
(* operation assigns variables, the environment) it leaves, and an action  *)
(* that installs them.  An operation that appends to a command file        *)
(* returns once FileAppend has made the append.                            *)

FC_OUTPUT == <<"O", "U", "T", "P", "U", "T">>
FC_STATE == <<"S", "T", "A", "T", "E">>
FC_ENV == <<"E", "N", "V">>
FC_PATH == <<"P", "A", "T", "H">>
PATH == <<"P", "A", "T", "H">>
GITHUB_OUTPUT == <<"G", "I", "T", "H", "U", "B", "_", "O", "U", "T", "P", "U", "T">>
GITHUB_STATE == <<"G", "I", "T", "H", "U", "B", "_", "S", "T", "A", "T", "E">>
GITHUB_ENV == <<"G", "I", "T", "H", "U", "B", "_", "E", "N", "V">>
GITHUB_PATH == <<"G", "I", "T", "H", "U", "B", "_", "P", "A", "T", "H">>
CMD_SET_OUTPUT == <<"s", "e", "t", "-", "o", "u", "t", "p", "u", "t">>
CMD_SAVE_STATE == <<"s", "a", "v", "e", "-", "s", "t", "a", "t", "e">>
CMD_SET_ENV == <<"s", "e", "t", "-", "e", "n", "v">>
CMD_ADD_PATH == <<"a", "d", "d", "-", "p", "a", "t", "h">>
CMD_ADD_MASK == <<"a", "d", "d", "-", "m", "a", "s", "k">>
CMD_DEBUG == <<"d", "e", "b", "u", "g">>
CMD_ERROR == <<"e", "r", "r", "o", "r">>
CMD_WARNING == <<"w", "a", "r", "n", "i", "n", "g">>
CMD_NOTICE == <<"n", "o", "t", "i", "c", "e">>
CMD_ECHO == <<"e", "c", "h", "o">>
CMD_GROUP == <<"g", "r", "o", "u", "p">>
CMD_ENDGROUP == <<"e", "n", "d", "g", "r", "o", "u", "p">>
NAME == <<"n", "a", "m", "e">>
ON == <<"o", "n">>
OFF == <<"o", "f", "f">>

\* CommandProperties::from([("name".into(), name.into())])
name_property(name) == <<(<<NAME, name>>)>>

\* println!(): an empty line on stdout; the macro panics when stdout cannot be
\* written.
println(c, stdout_ok) ==
  IF stdout_ok THEN [c EXCEPT !.out = Append(@, <<>>)] ELSE [c EXCEPT !.ret = "Panic"]

\* The file branch of set_output, save_state and export_variable:
\* issue_file_command(command, Some(prepare_key_value_message(name, value)?))?
key_value_file_command(c, e, command, name, value, delimiter) ==
  LET m == prepare_key_value_message(name, value, delimiter)
      c1 == [c EXCEPT !.branch = "file", !.delim = delimiter]
  IN IF ~m.ok THEN ReturnErr([c1 EXCEPT !.failed = TRUE, !.err = m.err])
     ELSE Try(issue_file_command(c1, e, command, m.val))

\* Mutant of set_output: the channel is chosen by another variable, GITHUB_STATE.
set_output_reads_state_var(c, e, name, value, delimiter, stdout_ok) ==
  LET file_path == unwrap_or_default(env_var(e, GITHUB_STATE))
      c1 == [c EXCEPT !.branch = "stdout", !.out = <<(<<>>)>>]
  IN IF file_path # <<>>
     THEN key_value_file_command(c, e, FC_OUTPUT, name, value, delimiter)
     ELSE IF ~stdout_ok THEN [c1 EXCEPT !.out = <<>>, !.ret = "Panic"]
     ELSE Try(issue_command(c1, stdout_ok, CMD_SET_OUTPUT,
                            name_property(name), to_command_value(value)))

\* Mutant of set_output: the key line and the rest of the block are issued as
\* two file commands.
set_output_two_appends(c, e, name, value, delimiter, stdout_ok) ==
  LET m == prepare_key_value_message(name, value, delimiter)
      c1 == [c EXCEPT !.branch = "file", !.delim = delimiter]
      head == name \o <<"<", "<">> \o delimiter
      rest == to_command_value(value) \o <<NL>> \o delimiter
  IN IF ~m.ok THEN ReturnErr([c1 EXCEPT !.failed = TRUE, !.err = m.err])
     ELSE Try(issue_file_command(issue_file_command(c1, e, FC_OUTPUT, head), e, FC_OUTPUT, rest))

\* Mutant of set_output: the error of prepare_key_value_message is dropped and
\* the block is written with the colliding delimiter.
set_output_ignores_collision(c, e, name, value, delimiter, stdout_ok) ==
  LET c1 == [c EXCEPT !.branch = "file", !.delim = delimiter]
      block == name \o <<"<", "<">> \o delimiter \o <<NL>> \o to_command_value(value)
                 \o <<NL>> \o delimiter
  IN Try(issue_file_command(c1, e, FC_OUTPUT, block))

\* Mutant of set_output: the value is sent as the name property.
set_output_swaps(c, e, name, value, delimiter, stdout_ok) ==
  LET c1 == println([c EXCEPT !.branch = "stdout"], stdout_ok)
  IN IF c1.ret = "Panic" THEN c1
     ELSE Try(issue_command(c1, stdout_ok, CMD_SET_OUTPUT,
                            name_property(to_command_value(value)), name))

set_output(c, e, name, value, delimiter, stdout_ok) ==
  LET file_path == unwrap_or_default(env_var(e, GITHUB_OUTPUT))
      c1 == println([c EXCEPT !.branch = "stdout"], stdout_ok)
  IN IF file_path # <<>>
     THEN key_value_file_command(c, e, FC_OUTPUT, name, value, delimiter)
     ELSE IF c1.ret = "Panic" THEN c1
     ELSE Try(issue_command(c1, stdout_ok, CMD_SET_OUTPUT,
                            name_property(name), to_command_value(value)))

save_state(c, e, name, value, delimiter, stdout_ok) ==
  LET file_path == unwrap_or_default(env_var(e, GITHUB_STATE))
  IN IF file_path # <<>>
     THEN key_value_file_command(c, e, FC_STATE, name, value, delimiter)
     ELSE Try(issue_command([c EXCEPT !.branch = "stdout"], stdout_ok, CMD_SAVE_STATE,
                            name_property(name), to_command_value(value)))

\* Mutant of export_variable: GITHUB_ENV is read before the assignment.
export_variable_reads_first(c, e, name, value, delimiter, stdout_ok) ==
  LET converted_value == to_command_value(value)
      e1 == set_var(e, name, converted_value)
      file_path == unwrap_or_default(env_var(e, GITHUB_ENV))
  IN [env |-> e1,
      call |-> IF file_path # <<>>
               THEN key_value_file_command(c, e1, FC_ENV, name, value, delimiter)
               ELSE Try(issue_command([c EXCEPT !.branch = "stdout"], stdout_ok,
                                      CMD_SET_ENV, name_property(name), converted_value))]

\* export_variable: the environment it leaves and the call's record.
export_variable(c, e, name, value, delimiter, stdout_ok) ==
  LET converted_value == to_command_value(value)
      e1 == set_var(e, name, converted_value)
      file_path == unwrap_or_default(env_var(e1, GITHUB_ENV))
  IN [env |-> e1,
      call |-> IF file_path # <<>>
               THEN key_value_file_command(c, e1, FC_ENV, name, value, delimiter)
               ELSE Try(issue_command([c EXCEPT !.branch = "stdout"], stdout_ok,
                                      CMD_SET_ENV, name_property(name), converted_value))]

\* The platform's path delimiter (not Windows).
path_delimiter == <<":">>

\* add_path up to the end of its if/else: the command is emitted.
add_path(c, e, input_path, stdout_ok) ==
  LET file_path == unwrap_or_default(env_var(e, GITHUB_PATH))
  IN IF file_path # <<>>
     THEN Try(issue_file_command([c EXCEPT !.branch = "file"], e, FC_PATH, input_path))
     ELSE Try(issue_command([c EXCEPT !.branch = "stdout"], stdout_ok, CMD_ADD_PATH,
                            <<>>, input_path))

\* Mutant of add_path_tail: the new entry is put in front.
add_path_tail_prepends(c, e) ==
  LET r == env_var(e, PATH)
  IN IF ~r.ok THEN [env |-> e, call |-> [c EXCEPT !.ret = "Err", !.err = r.err]]
     ELSE [env |-> set_var(e, PATH, c.name \o path_delimiter \o r.val),
           call |-> [c EXCEPT !.ret = "Ok"]]

\* add_path after the emission succeeded:
\* env::set_var("PATH", format!("{}{path_delimiter}{input_path}", env::var("PATH")?))
add_path_tail(c, e) ==
  LET r == env_var(e, PATH)
  IN IF ~r.ok THEN [env |-> e, call |-> [c EXCEPT !.ret = "Err", !.err = r.err]]
     ELSE [env |-> set_var(e, PATH, r.val \o path_delimiter \o c.name),
           call |-> [c EXCEPT !.ret = "Ok"]]

\* What a call leaves once its emission is over: add_path goes on to PATH.
Finish(c, e) ==
  IF c.op = "add_path" /\ c.ret = "Ok" THEN add_path_tail(c, e)
  ELSE [env |-> e, call |-> c]

set_secret(c, stdout_ok, secret) ==
  Try(issue_command([c EXCEPT !.branch = "stdout"], stdout_ok, CMD_ADD_MASK, <<>>, secret))

debug(c, stdout_ok, message) ==
  Try(issue_command([c EXCEPT !.branch = "stdout"], stdout_ok, CMD_DEBUG, <<>>, message))

set_command_echo(c, stdout_ok, enabled) ==
  Try(issue([c EXCEPT !.branch = "stdout"], stdout_ok, CMD_ECHO, IF enabled THEN ON ELSE OFF))

start_group(c, stdout_ok, name) ==
  Try(issue([c EXCEPT !.branch = "stdout"], stdout_ok, CMD_GROUP, name))

end_group(c, stdout_ok) ==
  Try(issue([c EXCEPT !.branch = "stdout"], stdout_ok, CMD_ENDGROUP, <<>>))

\* error, warning and notice: `issue_command(..);` without `?`, then Ok(()).
\* properties is what to_command_properties made of the annotation.
annotation(c, stdout_ok, command, properties, message) ==
  [issue_command([c EXCEPT !.branch = "stdout"], stdout_ok, command, properties, message)
     EXCEPT !.ret = "Ok"]

error(c, stdout_ok, properties, message) ==
  annotation(c, stdout_ok, CMD_ERROR, properties, message)

warning(c, stdout_ok, properties, message) ==
  annotation(c, stdout_ok, CMD_WARNING, properties, message)

notice(c, stdout_ok, properties, message) ==
  annotation(c, stdout_ok, CMD_NOTICE, properties, message)

\* set_failed: `error(message, None);` without `?`, then Ok(()).
set_failed(c, stdout_ok, properties, message) ==
  [error(c, stdout_ok, properties, message) EXCEPT !.ret = "Ok"]

-----------------------------------------------------------------------------
(* Inputs: get_input, get_multiline_input, get_boolean_input.              *)

INPUT_ == <<"I", "N", "P", "U", "T", "_">>

\* InputOptions { required, trim_whitespace }
InputOptions(required, trim_whitespace) ==
  [required |-> required, trim_whitespace |-> trim_whitespace]

\* format!("INPUT_{}", name.replace(' ', "_").to_uppercase())
input_key(name) == INPUT_ \o ToUppercase(Replace(name, <<SP>>, <<"_">>))

\* Option<bool>::unwrap_or_default
bool_or_default(o) == IF IsSome(o) THEN Unwrap(o) ELSE FALSE

\* options.trim_whitespace.is_some_and(|x| x == false)
trim_is_false(o) == IsSome(o) /\ Unwrap(o) = FALSE

\* Mutant of get_input: the required check made after trimming.
get_input_trim_first(e, name, options) ==
  LET value == unwrap_or_default(env_var(e, input_key(name)))
  IN IF IsSome(options) /\ bool_or_default(Unwrap(options).required) /\ Trim(value) = <<>>
     THEN Err("required")
     ELSE IF IsSome(options) /\ trim_is_false(Unwrap(options).trim_whitespace)
     THEN Ok(value)
     ELSE Ok(Trim(value))

get_input(e, name, options) ==
  LET value == unwrap_or_default(env_var(e, input_key(name)))
  IN IF IsSome(options) /\ bool_or_default(Unwrap(options).required) /\ value = <<>>
     THEN Err("required")
     ELSE IF IsSome(options) /\ trim_is_false(Unwrap(options).trim_whitespace)
     THEN Ok(value)
     ELSE Ok(Trim(value))

\* Mutant of get_multiline_input: the lines are not trimmed one by one.
get_multiline_input_no_line_trim(e, name, options) ==
  LET r == get_input(e, name, options)
  IN IF ~r.ok THEN r ELSE Ok(SplitLines(r.val))

get_multiline_input(e, name, options) ==
  LET r == get_input(e, name, options)
      inputs == IF r.ok THEN SplitLines(r.val) ELSE <<>>
  IN IF ~r.ok THEN r
     ELSE IF IsSome(options) /\ trim_is_false(Unwrap(options).trim_whitespace)
     THEN Ok(inputs)
     ELSE Ok([i \in 1..Len(inputs) |-> Trim(inputs[i])])

true_value == {<<"t", "r", "u", "e">>, <<"T", "r", "u", "e">>, <<"T", "R", "U", "E">>}
false_value ==
  {<<"f", "a", "l", "s", "e">>, <<"F", "a", "l", "s", "e">>, <<"F", "A", "L", "S", "E">>}

\* Mutant of get_boolean_input: the literals are compared without regard to case.
get_boolean_input_any_case(e, name, options) ==
  LET r == get_input(e, name, options)
      up(s) == [i \in 1..Len(s) |->
                 CASE s[i] = "t" -> "T" [] s[i] = "r" -> "R" [] s[i] = "u" -> "U"
                   [] s[i] = "e" -> "E" [] s[i] = "f" -> "F" [] s[i] = "a" -> "A"
                   [] s[i] = "l" -> "L" [] s[i] = "s" -> "S" [] OTHER -> s[i]]
  IN IF ~r.ok THEN r
     ELSE IF up(r.val) = <<"T", "R", "U", "E">> THEN Ok(TRUE)
     ELSE IF up(r.val) = <<"F", "A", "L", "S", "E">> THEN Ok(FALSE)
     ELSE Err("not_boolean")

get_boolean_input(e, name, options) ==
  LET r == get_input(e, name, options)
  IN IF ~r.ok THEN r
     ELSE IF r.val \in true_value THEN Ok(TRUE)
     ELSE IF r.val \in false_value THEN Ok(FALSE)
     ELSE Err("not_boolean")

\* A call that runs to its end in one step and returns r.
Return(c, r) ==
  [c EXCEPT !.ret = IF r.ok THEN "Ok" ELSE "Err", !.err = r.err, !.result = r.val]

GetInput(p, name, options) ==
  /\ Idle(p)
  /\ call' = [call EXCEPT ![p] =
        Return(Begin(p, "get_input", name, None, options), get_input(env[p], name, options))]
  /\ UNCHANGED <<env, fs>>

GetMultilineInput(p, name, options) ==
  /\ Idle(p)
  /\ call' = [call EXCEPT ![p] =
        Return(Begin(p, "get_multiline_input", name, None, options),
               get_multiline_input(env[p], name, options))]
  /\ UNCHANGED <<env, fs>>

GetBooleanInput(p, name, options) ==
  /\ Idle(p)
  /\ call' = [call EXCEPT ![p] =
        Return(Begin(p, "get_boolean_input", name, None, options),
               get_boolean_input(env[p], name, options))]
  /\ UNCHANGED <<env, fs>>

-----------------------------------------------------------------------------
(* The specification of the input functions: the input variable holds any  *)
(* of the enumerated values, or is unset, and the functions are applied.   *)

INPUT_A_B == <<"I", "N", "P", "U", "T", "_", "A", "_", "B">>

OptBool == {None, Some(TRUE), Some(FALSE)}

AllOptions ==
  {None} \cup {Some(InputOptions(r, t)) : r \in OptBool, t \in OptBool}

\* "a b" and "A_b" name the variable INPUT_A_B; "a" names INPUT_A, never set.
InputNames == {<<"a", SP, "b">>, <<"A", "_", "b">>, <<"a">>}

BoolCores ==
  true_value \cup false_value \cup
  {<<>>, <<"t", "R", "u", "E">>, <<"f", "A", "L", "S", "E">>, <<"t", "r", "u">>,
   <<"t", "r", "u", "e", SP, "e">>, <<"y", "e", "s">>, <<BadByte>>}

Pads == {<<>>, <<SP>>, <<NL>>}

InputValues ==
  StrUpTo({SP, NL, "a"}, MaxInputLen)
    \cup {a \o c \o b : a \in Pads, c \in BoolCores, b \in Pads}

InitInput ==
  /\ env \in {[p \in Procs |-> e] :
               e \in {EmptyEnv} \cup {(INPUT_A_B :> v) : v \in InputValues}}
  /\ fs = EmptyEnv
  /\ call = [p \in Procs |-> NoCall]

NextInput ==
  \E name \in InputNames, options \in AllOptions :
    \/ GetInput(1, name, options)
    \/ GetMultilineInput(1, name, options)
    \/ GetBooleanInput(1, name, options)

SpecInput == InitInput /\ [][NextInput]_vars

-----------------------------------------------------------------------------
(* The actions of the emitting operations.                                 *)

Install(p, r) ==
  /\ env' = [env EXCEPT ![p] = r.env]
  /\ call' = [call EXCEPT ![p] = r.call]

SetOutput(p, name, value, delimiter, stdout_ok) ==
  /\ Idle(p)
  /\ call' = [call EXCEPT ![p] =
        set_output(Begin(p, "set_output", name, value, None), env[p],
                   name, value, delimiter, stdout_ok)]
  /\ UNCHANGED <<env, fs>>

SaveState(p, name, value, delimiter, stdout_ok) ==
  /\ Idle(p)
  /\ call' = [call EXCEPT ![p] =
        save_state(Begin(p, "save_state", name, value, None), env[p],
                   name, value, delimiter, stdout_ok)]
  /\ UNCHANGED <<env, fs>>

ExportVariable(p, name, value, delimiter, stdout_ok) ==
  /\ Idle(p)
  /\ Install(p, export_variable(Begin(p, "export_variable", name, value, None), env[p],
                                name, value, delimiter, stdout_ok))
  /\ UNCHANGED fs

\* PATH is short enough for the model to let it grow.
PathRoom(p) == IF PATH \in DOMAIN env[p] THEN Len(env[p][PATH]) <= MaxPathLen ELSE TRUE

AddPath(p, input_path, stdout_ok) ==
  /\ Idle(p)
  /\ PathRoom(p)
  /\ Install(p, Finish(add_path(Begin(p, "add_path", input_path, None, None), env[p],
                                input_path, stdout_ok),
                       env[p]))
  /\ UNCHANGED fs

\* The write of issue_file_command: the next pending message is appended to
\* the target file in one write, or the write fails (the file is missing, the
\* disk is full, any other I/O error) and the operation returns the error.
\* After its last write the operation runs to its end.
FileAppend(p, io_ok) ==
  LET c == call[p]
      chunk == Head(c.pend)
      can == /\ io_ok
             /\ c.target \in DOMAIN fs
             /\ Len(fs[c.target]) + Len(chunk) <= DiskCap
      c1 == IF can
            THEN [c EXCEPT !.pend = Tail(@), !.wrote = Append(@, chunk),
                           !.ret = IF Tail(c.pend) = <<>> THEN "Ok" ELSE "Running"]
            ELSE [c EXCEPT !.pend = <<>>, !.failed = TRUE, !.err = "Io", !.ret = "Err"]
  IN /\ c.ret = "Running"
     /\ fs' = IF can THEN [fs EXCEPT ![c.target] = @ \o chunk] ELSE fs
     /\ Install(p, Finish(c1, env[p]))

SetSecret(p, secret, stdout_ok) ==
  /\ Idle(p)
  /\ call' = [call EXCEPT ![p] =
        set_secret(Begin(p, "set_secret", secret, None, None), stdout_ok, secret)]
  /\ UNCHANGED <<env, fs>>

Debug(p, message, stdout_ok) ==
  /\ Idle(p)
  /\ call' = [call EXCEPT ![p] =
        debug(Begin(p, "debug", message, None, None), stdout_ok, message)]
  /\ UNCHANGED <<env, fs>>

SetCommandEcho(p, enabled, stdout_ok) ==
  /\ Idle(p)
  /\ call' = [call EXCEPT ![p] =
        set_command_echo(Begin(p, "set_command_echo", IF enabled THEN ON ELSE OFF, None, None),
                         stdout_ok, enabled)]
  /\ UNCHANGED <<env, fs>>

StartGroup(p, name, stdout_ok) ==
  /\ Idle(p)
  /\ call' = [call EXCEPT ![p] =
        start_group(Begin(p, "start_group", name, None, None), stdout_ok, name)]
  /\ UNCHANGED <<env, fs>>

EndGroup(p, stdout_ok) ==
  /\ Idle(p)
  /\ call' = [call EXCEPT ![p] =
        end_group(Begin(p, "end_group", <<>>, None, None), stdout_ok)]
  /\ UNCHANGED <<env, fs>>

ErrorOp(p, message, properties, stdout_ok) ==
  /\ Idle(p)
  /\ call' = [call EXCEPT ![p] =
        error(Begin(p, "error", message, None, properties), stdout_ok, properties, message)]
  /\ UNCHANGED <<env, fs>>

Warning(p, message, properties, stdout_ok) ==
  /\ Idle(p)
  /\ call' = [call EXCEPT ![p] =
        warning(Begin(p, "warning", message, None, properties), stdout_ok, properties, message)]
  /\ UNCHANGED <<env, fs>>

Notice(p, message, properties, stdout_ok) ==
  /\ Idle(p)
  /\ call' = [call EXCEPT ![p] =
        notice(Begin(p, "notice", message, None, properties), stdout_ok, properties, message)]
  /\ UNCHANGED <<env, fs>>

SetFailed(p, message, properties, stdout_ok) ==
  /\ Idle(p)
  /\ call' = [call EXCEPT ![p] =
        set_failed(Begin(p, "set_failed", message, None, properties), stdout_ok,
                   properties, message)]
  /\ UNCHANGED <<env, fs>>

\* The caller, between two calls, sets (Some) or removes (None) a variable of
\* its environment.  The record of the latest call is dropped: it described the
\* environment that call left.
EnvMutate(p, key, value) ==
  /\ Idle(p)
  /\ env' = [env EXCEPT ![p] =
        IF IsSome(value) THEN set_var(@, key, Unwrap(value)) ELSE remove_var(@, key)]
  /\ call' = [call EXCEPT ![p] = NoCall]
  /\ UNCHANGED fs

-----------------------------------------------------------------------------
(* The specification of the channel choice: one process calls set_output,  *)
(* save_state, export_variable and add_path in any order while its caller  *)
(* sets and removes the GITHUB_* variables and PATH.                       *)

FILE_F == <<"f">>

Delims == {<<"d", "1">>}

DispatchNames == {<<"r", "e", "s", "u", "l", "t">>}
DispatchValues == {Some(<<"v">>)}
ExportNames == {GITHUB_ENV, GITHUB_PATH}
ExportValues == {None, Some(FILE_F)}
AddedPaths == {<<"/", "o", "p", "t", "/", "h", "o", "s", "t", "e", "d", "/", "x">>}

\* unset, empty, the path of the command file, not valid Unicode
TargetSettings == {None, Some(<<>>), Some(FILE_F), Some(<<BadByte>>)}
PathSettings == {None, Some(<<"b">>), Some(<<BadByte>>)}

Init ==
  /\ env = [p \in Procs |-> (PATH :> <<"b">>)]
  /\ fs = (FILE_F :> <<>>)
  /\ call = [p \in Procs |-> NoCall]

Next ==
  \/ \E name \in DispatchNames, value \in DispatchValues, d \in Delims, ok \in BOOLEAN :
       \/ SetOutput(1, name, value, d, ok)
       \/ SaveState(1, name, value, d, ok)
  \/ \E name \in ExportNames, value \in ExportValues, d \in Delims, ok \in BOOLEAN :
       ExportVariable(1, name, value, d, ok)
  \/ \E path \in AddedPaths, ok \in BOOLEAN : AddPath(1, path, ok)
  \/ \E io_ok \in BOOLEAN : FileAppend(1, io_ok)
  \/ \E key \in {GITHUB_OUTPUT, GITHUB_STATE, GITHUB_ENV, GITHUB_PATH},
        value \in TargetSettings : EnvMutate(1, key, value)
  \/ \E value \in PathSettings : EnvMutate(1, PATH, value)

Spec == Init /\ [][Next]_vars

-----------------------------------------------------------------------------
(* The specification of concurrent appenders: two processes of one job,    *)
(* each with its own environment, run set_output, save_state and           *)
(* export_variable in file mode against the same command file.             *)

FileTargets ==
  [k \in {GITHUB_OUTPUT, GITHUB_STATE, GITHUB_ENV} |-> FILE_F]

AppendNames == {<<"k">>}
AppendValues == {None, Some(<<"v">>)}
AppendDelims == {<<"d">>}

InitAppend ==
  /\ env = [p \in Procs |-> FileTargets]
  /\ fs = (FILE_F :> <<>>)
  /\ call = [p \in Procs |-> NoCall]

NextAppend ==
  \E p \in Procs :
    \/ \E name \in AppendNames, value \in AppendValues, d \in AppendDelims :
         \/ SetOutput(p, name, value, d, TRUE)
         \/ SaveState(p, name, value, d, TRUE)
         \/ ExportVariable(p, name, value, d, TRUE)
    \/ \E io_ok \in BOOLEAN : FileAppend(p, io_ok)

SpecAppend == InitAppend /\ [][NextAppend]_vars

-----------------------------------------------------------------------------
(* The specification of the framing: one process in file mode, with names, *)
(* values and generated delimiters that collide.                           *)

FrameNames == {<<"k">>, <<"d">>}
FrameValues == {None, Some(<<"v", NL, "d">>)}
FrameDelims == {<<"d">>, <<"e">>}

NextFrame ==
  \/ \E name \in FrameNames, value \in FrameValues, d \in FrameDelims :
       \/ SetOutput(1, name, value, d, TRUE)
       \/ SaveState(1, name, value, d, TRUE)
       \/ ExportVariable(1, name, value, d, TRUE)
  \/ \E io_ok \in BOOLEAN : FileAppend(1, io_ok)

SpecFrame == InitAppend /\ [][NextFrame]_vars

-----------------------------------------------------------------------------
(* The specification of the stdout commands: one process with no GITHUB_*  *)
(* variable set calls every operation that issues a command, with names,   *)
(* values and messages holding the characters the escaper rewrites, and    *)
(* with stdout writable or not.                                            *)

TITLE == <<"t", "i", "t", "l", "e">>
FILE == <<"f", "i", "l", "e">>

Specials == {PCT, NL, ":", ","}

StdoutTexts ==
  StrUpTo(Specials, MaxTextLen) \cup
  {<<"a">>, <<CR>>, <<SP>>, <<"=">>,
   <<PCT, "0", "A">>, <<PCT, "2", "5">>, <<PCT, "2", "5", "0", "A">>,
   <<"1", "0", "0", PCT, NL>>, <<"a", ",", "b", "=", "c", SP, "d">>,
   <<CR, NL>>, <<":", ":", "x", ":", ":">>}

StdoutNames == {<<"k">>, <<",", ":">>, <<"a", "=", NL>>}

\* A few of the texts, for the operations that differ only in the command.
FewTexts == {<<>>, <<PCT, NL>>, <<":", ":", "x", ":", ":">>, <<"a", ",", "b", "=", "c", SP, "d">>}

\* What to_command_properties returns for an annotation: some of its
\* properties, in order.
AnnotationProps ==
  {<<>>, <<(<<TITLE, <<>>>>)>>, <<(<<TITLE, <<PCT, "3", "A">>>>)>>,
   <<(<<TITLE, <<":", ":">>>>), (<<FILE, <<"a", ",", "b">>>>)>>,
   <<(<<TITLE, <<"a", "=", NL>>>>), (<<FILE, <<>>>>)>>}

InitStdout ==
  /\ env = [p \in Procs |-> (PATH :> <<"b">>)]
  /\ fs = (FILE_F :> <<>>)
  /\ call = [p \in Procs |-> NoCall]

NextStdout ==
  \E ok \in BOOLEAN :
    \/ \E name \in StdoutNames, value \in {None} \cup {Some(t) : t \in StdoutTexts} :
         SetOutput(1, name, value, <<"d">>, ok)
    \/ \E value \in {None} \cup {Some(t) : t \in StdoutTexts} :
         SaveState(1, <<"k">>, value, <<"d">>, ok)
    \/ \E value \in {None, Some(<<PCT, NL>>)} :
         ExportVariable(1, <<"k">>, value, <<"d">>, ok)
    \/ AddPath(1, <<"c", ":", PCT>>, ok)
    \/ \E text \in FewTexts :
         \/ SetSecret(1, text, ok)
         \/ Debug(1, text, ok)
         \/ StartGroup(1, text, ok)
    \/ \E enabled \in BOOLEAN : SetCommandEcho(1, enabled, ok)
    \/ EndGroup(1, ok)
    \/ \E message \in FewTexts, properties \in AnnotationProps :
         \/ ErrorOp(1, message, properties, ok)
         \/ Warning(1, message, properties, ok)
         \/ Notice(1, message, properties, ok)
         \/ SetFailed(1, message, properties, ok)

SpecStdout == InitStdout /\ [][NextStdout]_vars

-----------------------------------------------------------------------------
(* Properties of the channel choice.                                       *)

Dispatching == {"set_output", "save_state", "export_variable", "add_path"}

\* The variable whose value chooses an operation's channel.
TargetVariable(op) ==
  CASE op = "set_output" -> GITHUB_OUTPUT
    [] op = "save_state" -> GITHUB_STATE
    [] op = "export_variable" -> GITHUB_ENV
    [] op = "add_path" -> GITHUB_PATH

\* The command an operation issues on stdout.
StdoutCommand(op) ==
  CASE op = "set_output" -> CMD_SET_OUTPUT
    [] op = "save_state" -> CMD_SAVE_STATE
    [] op = "export_variable" -> CMD_SET_ENV
    [] op = "add_path" -> CMD_ADD_PATH

\* Variable k is set and non-empty in environment e.
SetNonEmpty(e, k) == k \in DOMAIN e /\ e[k] # <<>>

\* Variable k is set to a non-empty value of valid Unicode in environment e.
SetReadable(e, k) == k \in DOMAIN e /\ e[k] # <<>> /\ IsUnicode(e[k])

Text(value) == IF value = None THEN <<>> ELSE value[1]

\* The environment in which a call reads its target variable: the one it
\* started from, and for export_variable that one with name assigned.
ReadEnv(c) ==
  IF c.op = "export_variable"
  THEN [k \in (DOMAIN c.pre) \cup {c.name} |-> IF k = c.name THEN Text(c.value) ELSE c.pre[k]]
  ELSE c.pre

\* C1, as stated: each of the four operations takes the file path if and only
\* if its variable is set and non-empty when the call starts, and the stdout
\* path otherwise; it never emits on both channels and never attempts the file
\* path with the variable unset or empty.
C1_VariableAtCallStart ==
  \A p \in Procs :
    LET c == call[p] IN
    c.op \in Dispatching =>
      /\ c.branch = "file" <=> SetNonEmpty(c.pre, TargetVariable(c.op))
      /\ c.branch = "stdout" <=> ~SetNonEmpty(c.pre, TargetVariable(c.op))
      /\ ~(c.wrote # <<>> /\ c.out # <<>>)
      /\ c.err # "MissingTarget"

\* C1, amended: the choice is made on the variable as std::env::var reads it
\* when the operation reaches its test, which for export_variable is after it
\* has assigned name: the file path is taken if and only if the variable is
\* then set to a non-empty value of valid Unicode, and the stdout path
\* otherwise.  The file command goes to the file the variable names, the stdout
\* command is the operation's own, nothing is emitted on the other channel,
\* and the file path is never attempted with the variable unset or empty.
C1_VariableAsRead ==
  \A p \in Procs :
    LET c == call[p]
        k == TargetVariable(c.op)
    IN c.op \in Dispatching =>
         /\ c.branch \in {"file", "stdout"}
         /\ c.branch = "file" <=> SetReadable(ReadEnv(c), k)
         /\ c.branch = "file" =>
              /\ c.out = <<>>
              /\ c.pend # <<>> \/ c.wrote # <<>> => c.target = ReadEnv(c)[k]
         /\ c.branch = "stdout" =>
              /\ c.pend = <<>> /\ c.wrote = <<>> /\ c.target = <<>>
              /\ c.ret = "Ok" =>
                   StartsWith(c.out[Len(c.out)], <<":", ":">> \o StdoutCommand(c.op))
         /\ c.err # "MissingTarget"

\* C1, witness: save_state appended to the command file while the variables of
\* the other three operations were unset.
C1_Witness ==
  /\ call[1].op = "save_state" /\ call[1].ret = "Ok"
  /\ call[1].branch = "file" /\ call[1].wrote # <<>>
  /\ DOMAIN call[1].pre = {GITHUB_STATE}

\* C9: export_variable assigns name before it chooses the channel and before it
\* emits: from its first step on, in the file branch and in the stdout branch,
\* while the append is pending and when the emission has failed, the variable
\* holds the value's text (None: the empty string); and with name GITHUB_ENV
\* the file path is taken exactly when the new value is non-empty, whatever
\* GITHUB_ENV held when the call started.
C9_AssignedBeforeDispatch ==
  \A p \in Procs :
    LET c == call[p] IN
    c.op = "export_variable" =>
      /\ c.name \in DOMAIN env[p]
      /\ env[p][c.name] = Text(c.value)
      /\ \A k \in DOMAIN env[p] \ {c.name} : k \in DOMAIN c.pre /\ env[p][k] = c.pre[k]
      /\ c.name = GITHUB_ENV => (c.branch = "file" <=> Text(c.value) # <<>>)
      /\ c.name # GITHUB_ENV => (c.branch = "file" <=> SetReadable(c.pre, GITHUB_ENV))

\* C9, witness: GITHUB_ENV was unset, export_variable("GITHUB_ENV", path) took
\* the file path, the append failed, and GITHUB_ENV stays assigned.
C9_Witness ==
  /\ call[1].op = "export_variable" /\ call[1].name = GITHUB_ENV
  /\ GITHUB_ENV \notin DOMAIN call[1].pre
  /\ call[1].branch = "file" /\ call[1].ret = "Err" /\ call[1].err = "Io"
  /\ env[1][GITHUB_ENV] = FILE_F

\* The add-path command of a call has been emitted, on either channel.
PathEmitted(c) ==
  \/ c.branch = "file" /\ c.wrote = <<c.name \o <<NL>>>>
  \/ c.branch = "stdout" /\ Len(c.out) = 1

C10_Appended ==
  /\ call[1].op = "add_path" /\ call[1].ret = "Ok" /\ call[1].branch = "file"
  /\ env[1][PATH] = <<"b", ":">> \o call[1].name

-----------------------------------------------------------------------------
(* Properties of the file commands.                                        *)

KeyValue == {"set_output", "save_state", "export_variable"}

\* key<<DELIM, newline, value, newline, DELIM, newline
Block(key, text, delimiter) ==
  key \o <<"<", "<">> \o delimiter \o <<NL>> \o text \o <<NL>> \o delimiter \o <<NL>>

Collides(c) == IsSubstr(c.delim, c.name) \/ IsSubstr(c.delim, Text(c.value))

\* The complete blocks the appenders can write.
AppendBlocks ==
  {Block(n, Text(v), d) : n \in AppendNames, v \in AppendValues, d \in AppendDelims}

\* s is a concatenation of complete blocks.
RECURSIVE WholeBlocks(_)
WholeBlocks(s) ==
  \/ s = <<>>
  \/ \E b \in AppendBlocks : StartsWith(s, b) /\ WholeBlocks(Drop(s, Len(b)))

\* C2: whatever the interleaving of the processes, the command file is at
\* every moment a concatenation of complete blocks, and every append an
\* operation has made is its whole block: key, opening delimiter, value and
\* closing delimiter.
C2_WholeBlocksOnly ==
  /\ WholeBlocks(fs[FILE_F])
  /\ \A p \in Procs :
       LET c == call[p] IN
       c.op \in KeyValue =>
         \A i \in 1..Len(c.wrote) : c.wrote[i] = Block(c.name, Text(c.value), c.delim)

\* C2, witness: while process 1 was about to append, process 2 appended its
\* block, and then process 1 appended its own behind it.
C2_Witness ==
  /\ call[1].op = "set_output" /\ call[1].ret = "Ok"
  /\ call[2].op = "save_state" /\ call[2].ret = "Ok"
  /\ call[1].value # call[2].value
  /\ fs[FILE_F] = call[2].wrote[1] \o call[1].wrote[1]

\* C3: in file mode, when the generated delimiter occurs in the name or in
\* the value's text the operation returns an error and appends nothing;
\* otherwise what it appends is exactly name<<DELIM, newline, value, newline,
\* DELIM, newline, in one piece, with a DELIM that occurs in neither.
C3_CollisionOrExactBlock ==
  \A p \in Procs :
    LET c == call[p] IN
    c.op \in KeyValue /\ c.branch = "file" =>
      IF Collides(c)
      THEN c.ret = "Err" /\ c.err = "DelimiterCollision" /\ c.wrote = <<>> /\ c.pend = <<>>
      ELSE /\ c.ret = "Running" =>
                c.pend = <<Block(c.name, Text(c.value), c.delim)>> /\ c.wrote = <<>>
           /\ c.ret = "Ok" =>
                c.wrote = <<Block(c.name, Text(c.value), c.delim)>> /\ c.pend = <<>>
           /\ c.ret = "Err" => c.err = "Io" /\ c.wrote = <<>> /\ c.pend = <<>>
           /\ c.ret \in {"Running", "Ok", "Err"}

\* C3, witness: a multi-line value framed by a delimiter it does not contain has
\* been appended, after a call whose delimiter collided had left the file empty.
C3_Witness ==
  /\ call[1].op = "set_output" /\ call[1].ret = "Ok"
  /\ call[1].value = Some(<<"v", NL, "d">>) /\ call[1].name = <<"d">>
  /\ fs[FILE_F] = <<"d", "<", "<", "e", NL, "v", NL, "d", NL, "e", NL>>

\* C3, the other case: the delimiter occurred in the value and nothing was
\* appended.
C3_Refused ==
  /\ call[1].op = "save_state" /\ call[1].ret = "Err"
  /\ call[1].name = <<"k">> /\ IsSubstr(call[1].delim, Text(call[1].value))
  /\ fs[FILE_F] = <<>>

-----------------------------------------------------------------------------
(* Properties of the stdout commands.  The decoder is the runner's: it     *)
(* splits a line at its sentinels, spaces, commas and equals signs and     *)
(* reverses the escapes, %25 last.                                         *)

RECURSIVE SplitOn(_, _)
SplitOn(s, sep) ==
  LET i == Find(<<sep>>, s)
  IN IF i = 0 THEN <<s>> ELSE <<SubSeq(s, 1, i - 1)>> \o SplitOn(Drop(s, i), sep)

unescape_data(s) ==
  Replace(Replace(Replace(s, <<PCT, "0", "D">>, <<CR>>),
                  <<PCT, "0", "A">>, <<NL>>),
          <<PCT, "2", "5">>, <<PCT>>)

unescape_property(s) ==
  Replace(Replace(Replace(Replace(Replace(s, <<PCT, "0", "D">>, <<CR>>),
                                  <<PCT, "0", "A">>, <<NL>>),
                          <<PCT, "3", "A">>, <<":">>),
                  <<PCT, "2", "C">>, <<",">>),
          <<PCT, "2", "5">>, <<PCT>>)

\* The header of a line: what stands between the opening :: and the next ::.
Header(line) == SubSeq(line, 3, Find(<<":", ":">>, Drop(line, 2)) + 1)

DecodeProperty(text) ==
  LET i == Find(<<"=">>, text)
  IN <<SubSeq(text, 1, i - 1), unescape_property(Drop(text, i))>>

Decode(line) ==
  LET header == Header(line)
      sp == Find(<<SP>>, header)
      pieces == IF sp = 0 THEN <<>> ELSE SplitOn(Drop(header, sp), ",")
  IN [command |-> IF sp = 0 THEN header ELSE SubSeq(header, 1, sp - 1),
      properties |-> [i \in 1..Len(pieces) |-> DecodeProperty(pieces[i])],
      message |-> unescape_data(Drop(line, Len(header) + 4))]

Command(command, properties, message) ==
  [command |-> command, properties |-> properties, message |-> message]

\* The command an operation was asked to issue.
Issued(c) ==
  CASE c.op \in {"set_output", "save_state", "export_variable"} ->
         Command(StdoutCommand(c.op), <<(<<NAME, c.name>>)>>, Text(c.value))
    [] c.op = "add_path" -> Command(CMD_ADD_PATH, <<>>, c.name)
    [] c.op = "set_secret" -> Command(CMD_ADD_MASK, <<>>, c.name)
    [] c.op = "debug" -> Command(CMD_DEBUG, <<>>, c.name)
    [] c.op = "set_command_echo" -> Command(CMD_ECHO, <<>>, c.name)
    [] c.op = "start_group" -> Command(CMD_GROUP, <<>>, c.name)
    [] c.op = "end_group" -> Command(CMD_ENDGROUP, <<>>, <<>>)
    [] c.op \in {"error", "set_failed"} -> Command(CMD_ERROR, c.opts, c.name)
    [] c.op = "warning" -> Command(CMD_WARNING, c.opts, c.name)
    [] c.op = "notice" -> Command(CMD_NOTICE, c.opts, c.name)

Count(s, ch) == Cardinality({i \in 1..Len(s) : s[i] = ch})

\* C4: the line an operation writes in stdout mode starts with ::, decodes to
\* the operation's command name, its properties in insertion order and its
\* message, holds no raw CR or LF, and has in its header no colon and no
\* comma but the ones that separate its properties.
C4_LineDecodes ==
  \A p \in Procs :
    LET c == call[p]
        line == c.out[Len(c.out)]
    IN c.op # "none" /\ c.branch = "stdout" /\ c.out # <<>> =>
         /\ StartsWith(line, <<":", ":">>)
         /\ Decode(line) = Issued(c)
         /\ Count(line, NL) = 0 /\ Count(line, CR) = 0
         /\ Count(Header(line), ":") = 0
         /\ Count(Header(line), ",") = IF Issued(c).properties = <<>> THEN 0
                                       ELSE Len(Issued(c).properties) - 1
         /\ \A i \in 1..(Len(c.out) - 1) : c.out[i] = <<>>

\* C4, witness: set_output wrote the line of a name and a value that both
\* hold characters the escaper rewrites, a literal %25 among them.
C4_Witness ==
  /\ call[1].op = "set_output" /\ call[1].ret = "Ok"
  /\ call[1].name = <<"a", "=", NL>>
  /\ call[1].value = Some(<<PCT, "2", "5", "0", "A">>)
  /\ call[1].out[2] = <<":", ":">> \o CMD_SET_OUTPUT \o <<SP>> \o NAME
                        \o <<"=", "a", "=", PCT, "0", "A", ":", ":",
                             PCT, "2", "5", "2", "5", "0", "A">>

\* C4, witness of an annotation with two properties.
C4_Annotation ==
  /\ call[1].op = "warning" /\ Len(call[1].opts) = 2
  /\ call[1].opts[1][2] = <<":", ":">> /\ call[1].opts[2][2] = <<"a", ",", "b">>
  /\ call[1].name = <<PCT, NL>>
  /\ call[1].out # <<>>

\* C5: a public operation in which a call of issue_command,
\* issue_file_command or prepare_key_value_message failed returns the error.
C5_ErrorsReturned ==
  \A p \in Procs : call[p].failed => call[p].ret = "Err"

\* C5 holds of the operations that use `?`.
C5_ErrorsReturnedWithTry ==
  \A p \in Procs :
    call[p].failed /\ call[p].op \notin {"error", "warning", "notice", "set_failed"} =>
      call[p].ret = "Err"

-----------------------------------------------------------------------------
(* Properties of the input functions.                                      *)

\* The value stored in the input variable a call names, as the call found it:
\* the empty string when the variable is unset.
Stored(c) ==
  IF c.name \in {<<"a", SP, "b">>, <<"A", "_", "b">>} /\ INPUT_A_B \in DOMAIN c.pre
  THEN c.pre[INPUT_A_B] ELSE <<>>

\* What std::env::var(..).unwrap_or_default() makes of it: a value that is not
\* valid Unicode reads as the empty string.
Seen(c) == IF IsUnicode(Stored(c)) THEN Stored(c) ELSE <<>>

Required(c) == c.opts # None /\ c.opts[1].required = Some(TRUE)
TrimOff(c) == c.opts # None /\ c.opts[1].trim_whitespace = Some(FALSE)

\* C6, as stated: get_boolean_input returns true for the stored values true,
\* True, TRUE, false for false, False, FALSE, and a validation error for every
\* other stored value, whatever the options.
C6_StoredLiteralDecides ==
  \A p \in Procs :
    LET c == call[p] IN
    c.op = "get_boolean_input" =>
      /\ Stored(c) \in true_value => c.ret = "Ok" /\ c.result = TRUE
      /\ Stored(c) \in false_value => c.ret = "Ok" /\ c.result = FALSE
      /\ Stored(c) \notin true_value \cup false_value => c.ret = "Err"

\* C6, amended: the six literals are matched against the value get_input
\* returns, which is the stored value with surrounding whitespace removed unless
\* trim_whitespace = false; every other value is a validation error, except that
\* an empty value with required = true is the required-input error.
C6_ReturnedLiteralDecides ==
  \A p \in Procs :
    LET c == call[p]
        v == IF TrimOff(c) THEN Seen(c) ELSE Trim(Seen(c))
    IN c.op = "get_boolean_input" =>
         IF Required(c) /\ Seen(c) = <<>>
         THEN c.ret = "Err" /\ c.err = "required"
         ELSE /\ v \in true_value => c.ret = "Ok" /\ c.result = TRUE
              /\ v \in false_value => c.ret = "Ok" /\ c.result = FALSE
              /\ v \notin true_value \cup false_value =>
                   c.ret = "Err" /\ c.err = "not_boolean"

\* C6, witness: a literal stored with surrounding whitespace was accepted, and
\* the same kind of value was refused with trim_whitespace = false.
C6_Witness ==
  /\ call[1].op = "get_boolean_input"
  /\ Stored(call[1]) = <<SP, "F", "a", "l", "s", "e", NL>>
  /\ call[1].ret = "Ok" /\ call[1].result = FALSE

\* C7, as stated: an empty value with required = true is an error, an empty
\* value without it returns the empty string, and a successful get_input with
\* required = true never returns the empty string.
C7_RequiredNeverEmpty ==
  \A p \in Procs :
    LET c == call[p] IN
    c.op = "get_input" =>
      /\ Required(c) /\ Seen(c) = <<>> => c.ret = "Err" /\ c.err = "required"
      /\ ~Required(c) /\ Seen(c) = <<>> => c.ret = "Ok" /\ c.result = <<>>
      /\ Required(c) /\ c.ret = "Ok" => c.result # <<>>

\* C7, amended: the required check is made on the value before it is trimmed,
\* so a successful get_input with required = true returns the empty string
\* exactly when the value is non-empty, all whitespace, and trimmed.
C7_RequiredChecksUntrimmed ==
  \A p \in Procs :
    LET c == call[p] IN
    c.op = "get_input" =>
      /\ Required(c) /\ Seen(c) = <<>> => c.ret = "Err" /\ c.err = "required"
      /\ ~Required(c) /\ Seen(c) = <<>> => c.ret = "Ok" /\ c.result = <<>>
      /\ Required(c) /\ Seen(c) # <<>> => c.ret = "Ok"
      /\ Required(c) /\ c.ret = "Ok" =>
           (c.result = <<>> <=>
              ~TrimOff(c) /\ \A i \in 1..Len(Seen(c)) : Seen(c)[i] \in Whitespace)

\* C7, witness: required = true, a whitespace-only value, and the call returned
\* the empty string.
C7_Witness ==
  /\ call[1].op = "get_input" /\ Required(call[1])
  /\ Stored(call[1]) = <<SP, NL>>
  /\ call[1].ret = "Ok" /\ call[1].result = <<>>

\* The lines of a value, each with its surrounding whitespace removed.
TrimmedLines(v) == [i \in 1..Len(SplitLines(v)) |-> Trim(SplitLines(v)[i])]

\* C8, as stated: with trimming enabled each returned line is the corresponding
\* line of the input value with surrounding whitespace removed, whatever
\* get_input does to the whole value; with trim_whitespace = false every line is
\* returned unchanged.
C8_LinesOfStoredValue ==
  \A p \in Procs :
    LET c == call[p] IN
    c.op = "get_multiline_input" /\ c.ret = "Ok" =>
      c.result = IF TrimOff(c) THEN SplitLines(Seen(c)) ELSE TrimmedLines(Seen(c))

\* C8, amended: one option governs both trimmings.  With trimming enabled the
\* whole value is trimmed first, so the returned lines are the trimmed lines of
\* the trimmed value (leading and trailing blank lines are gone); with
\* trim_whitespace = false the lines of the value are returned unchanged.  The
\* call fails only on an empty value with required = true.
C8_LinesOfTrimmedValue ==
  \A p \in Procs :
    LET c == call[p] IN
    c.op = "get_multiline_input" =>
      IF Required(c) /\ Seen(c) = <<>>
      THEN c.ret = "Err" /\ c.err = "required"
      ELSE /\ c.ret = "Ok"
           /\ c.result = IF TrimOff(c) THEN SplitLines(Seen(c))
                         ELSE TrimmedLines(Trim(Seen(c)))

\* C8, witness: trimming enabled, a value whose inner lines carry whitespace:
\* both lines came back trimmed.
C8_Witness ==
  /\ call[1].op = "get_multiline_input" /\ ~TrimOff(call[1])
  /\ Stored(call[1]) = <<"a", SP, NL, "a">>
  /\ call[1].result = <<(<<"a">>), (<<"a">>)>>

=============================================================================
